---- MODULE Spec2Model ----
(***************************************************************************)
(* A model of zenodo-utils: the deposit command (collect, reconcile,       *)
(* build, create-or-update, upload with one retry), the Local Deposit      *)
(* Binding kept in the project configuration file, and the metadata        *)
(* reconciliation over the collected articles.                             *)
(***************************************************************************)
EXTENDS FiniteSets, Integers, Sequences, TLC

(***************************************************************************)
(* Bounds of the model.                                                    *)
(***************************************************************************)
MaxArticles == 2
MaxFiles == 2
MaxIds == 2
MaxRuns == 2
MaxProjects == 3
MaxCalls == 2

(***************************************************************************)
(* JavaScript values.  Every value is a record with a tag t.  A string is  *)
(* the sequence of its characters; a word whose letters never matter       *)
(* ("deposit", "zenodo.org") is carried as one character.                  *)
(***************************************************************************)
Undefined == [t |-> "undefined"]
NaN == [t |-> "nan"]
Num(n) == [t |-> "num", v |-> n]
Str(s) == [t |-> "str", v |-> s]
Null == [t |-> "null"]
Arr(s) == [t |-> "arr", v |-> s]
Thrown == [t |-> "throw"]

\* ToBoolean: undefined, NaN, 0 and the empty string are falsy.
Truthy(x) ==
  CASE x.t = "undefined" -> FALSE
    [] x.t = "null" -> FALSE
    [] x.t = "nan" -> FALSE
    [] x.t = "throw" -> FALSE
    [] x.t = "num" -> x.v # 0
    [] x.t = "str" -> x.v # <<>>
    [] OTHER -> TRUE

\* a !== b on primitives: same type and same value.
StrictEq(a, b) == a.t = b.t /\ (a.t \in {"num", "str"} => a.v = b.v)

Digits == <<"0", "1", "2", "3", "4", "5", "6", "7", "8", "9">>

\* The decimal digits of a natural number, as String(n) and `${n}` print it.
RECURSIVE DecimalOf(_)
DecimalOf(n) ==
  IF n < 10 THEN <<Digits[n + 1]>>
  ELSE Append(DecimalOf(n \div 10), Digits[(n % 10) + 1])

IsDigit(c) == \E d \in 1..10 : Digits[d] = c
DigitValue(c) == (CHOOSE d \in 1..10 : Digits[d] = c) - 1

\* Number.parseInt(s, 10) on a sequence of characters: the value of the
\* longest prefix of decimal digits, NaN when the string starts with none.
RECURSIVE ParseDigits(_, _, _)
ParseDigits(s, i, acc) ==
  IF i > Len(s) \/ ~IsDigit(s[i]) THEN acc
  ELSE ParseDigits(s, i + 1, acc * 10 + DigitValue(s[i]))

ParseInt(s) ==
  IF Len(s) = 0 \/ ~IsDigit(s[1]) THEN NaN ELSE Num(ParseDigits(s, 1, 0))

\* String(x) of a string or a number.
String(x) == IF x.t = "num" THEN Str(DecimalOf(x.v)) ELSE x

\* s.split('/'): the pieces of s between the separators, in order.
RECURSIVE SplitFrom(_, _, _, _)
SplitFrom(s, i, cur, acc) ==
  IF i > Len(s) THEN Append(acc, cur)
  ELSE IF s[i] = "/" THEN SplitFrom(s, i + 1, <<>>, Append(acc, cur))
  ELSE SplitFrom(s, i + 1, Append(cur, s[i]), acc)

Split(s) == SplitFrom(s, 1, <<>>, <<>>)

(***************************************************************************)
(* The project configuration file: a sequence of lines.  A line holds its  *)
(* indentation, its key and its value: Block for a key that opens a nested *)
(* mapping ("project:"), or the characters of a scalar.                    *)
(***************************************************************************)
Block == [t |-> "block"]
Line(n, k, v) == [indent |-> n, key |-> k, val |-> v]

\* A line followed by a comment ("project: # the book").
Commented(l) == [indent |-> l.indent, key |-> l.key, val |-> l.val, comment |-> TRUE]

\* line.trim() === 'project:'
IsProjectLine(l) == l.key = "project" /\ l.val = Block /\ "comment" \notin DOMAIN l

\* lines.findIndex(...): the first matching line, 0 when there is none
\* (lines are numbered from 1 here, from 0 in the source).
FindProjectIndex(lines) ==
  IF \E i \in 1..Len(lines) : IsProjectLine(lines[i])
  THEN CHOOSE i \in 1..Len(lines) :
         /\ IsProjectLine(lines[i])
         /\ \A j \in 1..(i - 1) : ~IsProjectLine(lines[j])
  ELSE 0

Host(sandbox) == IF sandbox THEN "sandbox.zenodo.org" ELSE "zenodo.org"

\* `https://${sandbox ? 'sandbox.' : ''}zenodo.org/deposit/${zenodoId}`
ZenodoUrl(zenodoId, sandbox) ==
  <<"https:", "/", "/", Host(sandbox), "/", "deposit", "/">> \o DecimalOf(zenodoId)

ZenodoLine(zenodoId, sandbox) == Line(2, "zenodo", Str(ZenodoUrl(zenodoId, sandbox)))

\* addZenodoToConfig that builds the new lines and never writes them.
addZenodoToConfig_NotWritten(lines, zenodoId, sandbox) == lines

\* addZenodoToConfig on the lines of an existing file: the binding line goes
\* right after the first 'project:' line (at the top when there is none).
addZenodoToConfig(lines, zenodoId, sandbox) ==
  LET projectIndex == FindProjectIndex(lines)
  IN SubSeq(lines, 1, projectIndex) \o <<ZenodoLine(zenodoId, sandbox)>>
       \o SubSeq(lines, projectIndex + 1, Len(lines))

(***************************************************************************)
(* yamlLoad, as far as getZenodoId reads its result: block mappings told   *)
(* apart by indentation alone.  A line may be indented more than the line  *)
(* before it only when that line opens a mapping; a line that closes       *)
(* mappings must return to the indentation of an open one; a mapping holds *)
(* no key twice.  Any other text makes the loader throw.                   *)
(***************************************************************************)
RECURSIVE PopTo(_, _)
PopTo(stack, n) ==
  IF stack = <<>> THEN <<>>
  ELSE IF stack[Len(stack)] > n THEN PopTo(SubSeq(stack, 1, Len(stack) - 1), n)
  ELSE stack

RECURSIVE IndentOK(_, _, _)
IndentOK(lines, i, stack) ==
  IF i > Len(lines) THEN TRUE
  ELSE LET n == lines[i].indent
           top == stack[Len(stack)]
       IN IF i = 1 THEN IndentOK(lines, 2, <<n>>)
          ELSE IF n > top
            THEN lines[i - 1].val = Block /\ IndentOK(lines, i + 1, Append(stack, n))
          ELSE LET popped == PopTo(stack, n)
               IN /\ popped # <<>>
                  /\ popped[Len(popped)] = n
                  /\ IndentOK(lines, i + 1, popped)

\* Lines i < j are entries of the same mapping.
Siblings(lines, i, j) ==
  /\ i < j
  /\ lines[i].indent = lines[j].indent
  /\ \A k \in (i + 1)..(j - 1) : lines[k].indent >= lines[i].indent

NoDuplicateKey(lines) ==
  \A i, j \in 1..Len(lines) : Siblings(lines, i, j) => lines[i].key # lines[j].key

YamlValid(lines) == IndentOK(lines, 1, <<>>) /\ NoDuplicateKey(lines)

\* data?.project?.zenodo of a file the loader accepts.
ProjectZenodo(lines) ==
  IF lines = <<>> THEN Undefined
  ELSE LET top == lines[1].indent
           P == {i \in 1..Len(lines) : lines[i].indent = top /\ lines[i].key = "project"}
       IN IF P = {} THEN Undefined
          ELSE LET p == CHOOSE i \in P : TRUE
               IN IF lines[p].val # Block \/ p = Len(lines) THEN Undefined
                  ELSE IF lines[p + 1].indent <= top THEN Undefined
                  ELSE LET c == lines[p + 1].indent
                           Z == {i \in (p + 1)..Len(lines) :
                                   /\ lines[i].indent = c
                                   /\ lines[i].key = "zenodo"
                                   /\ \A k \in (p + 1)..i : lines[k].indent >= c}
                       IN IF Z = {} THEN Undefined
                          ELSE LET v == lines[CHOOSE i \in Z : TRUE].val
                               IN IF v = Block THEN Str(<<"[object Object]">>) ELSE v

\* getZenodoId that takes the first piece of the url, not the last.
getZenodoId_FirstPiece(configFile, fs) ==
  IF ~Truthy(configFile) THEN Undefined
  ELSE LET lines == fs[configFile.v]
       IN IF ~YamlValid(lines) THEN Thrown
          ELSE LET url == ProjectZenodo(lines)
               IN IF ~Truthy(url) THEN Undefined
                  ELSE ParseInt(Split(String(url).v)[1])

\* getZenodoId: Thrown when yamlLoad throws, undefined when there is no file
\* or no project.zenodo, else parseInt of what follows the last '/'.
getZenodoId(configFile, fs) ==
  IF ~Truthy(configFile) THEN Undefined
  ELSE LET lines == fs[configFile.v]
       IN IF ~YamlValid(lines) THEN Thrown
          ELSE LET url == ProjectZenodo(lines)
               IN IF ~Truthy(url) THEN Undefined
                  ELSE LET parts == Split(String(url).v)
                       IN ParseInt(parts[Len(parts)])

(***************************************************************************)
(* issueDataFromArticles.  The frontmatter of an article is a record; the  *)
(* field venue_title stands for venue?.title, and so on.  Each reconciled  *)
(* scalar is folded over the articles in the order of the source:          *)
(*   guard "truthy"  : if (x)          ... else if (cur !== x)             *)
(*   guard "nonnull" : if (x != null)  ... else if (cur !== x)             *)
(*   guard "string"  : if (x)          ... else if (cur !== String(x))     *)
(***************************************************************************)
ScalarFields == <<
  [name |-> "venueTitle",     from |-> "venue_title",       guard |-> "truthy"],
  [name |-> "venueAbbr",      from |-> "venue_short_title", guard |-> "truthy"],
  [name |-> "venueDoi",       from |-> "venue_doi",         guard |-> "truthy"],
  [name |-> "venueUrl",       from |-> "venue_url",         guard |-> "truthy"],
  [name |-> "journalSeries",  from |-> "venue_series",      guard |-> "truthy"],
  [name |-> "journalIssn",    from |-> "venue_issn",        guard |-> "truthy"],
  [name |-> "eventNumber",    from |-> "venue_number",      guard |-> "nonnull"],
  [name |-> "eventDate",      from |-> "venue_date",        guard |-> "nonnull"],
  [name |-> "eventLocation",  from |-> "venue_location",    guard |-> "nonnull"],
  [name |-> "venuePublisher", from |-> "venue_publisher",   guard |-> "nonnull"],
  [name |-> "volumeNumber",   from |-> "volume_number",     guard |-> "string"],
  [name |-> "volumeDoi",      from |-> "volume_doi",        guard |-> "truthy"],
  [name |-> "issueNumber",    from |-> "issue_number",      guard |-> "string"],
  [name |-> "issueDoi",       from |-> "issue_doi",         guard |-> "truthy"],
  [name |-> "volumeTitle",    from |-> "volume_title",      guard |-> "truthy"],
  [name |-> "volumeSubject",  from |-> "volume_subject",    guard |-> "truthy"] >>

ScalarNames == {ScalarFields[k].name : k \in 1..Len(ScalarFields)}

\* The guard of one field: does the article contribute a value?
Contributes(guard, x) ==
  IF guard = "nonnull" THEN x.t \notin {"undefined", "null"} ELSE Truthy(x)

\* The value kept and compared: String(x) for the volume and issue numbers.
Kept(guard, x) == IF guard = "string" THEN String(x) ELSE x

Conflict(name, cur, x) ==
  [t |-> "throw", error |-> "conflict", field |-> name, first |-> cur, second |-> x]

\* One if-block of the loop body: the new value of the variable, or the
\* conflict thrown.
FoldField(f, cur, x) ==
  IF ~Contributes(f.guard, x) THEN cur
  ELSE IF ~Truthy(cur) THEN Kept(f.guard, x)
  ELSE IF ~StrictEq(cur, Kept(f.guard, x)) THEN Conflict(f.name, cur, x)
  ELSE cur

\* array.find(({ id }) => id === wanted): the first match, or undefined.
Find(list, wanted) ==
  IF list.t # "arr" THEN Undefined
  ELSE IF \E i \in 1..Len(list.v) : list.v[i].id = wanted
  THEN list.v[CHOOSE i \in 1..Len(list.v) :
         /\ list.v[i].id = wanted
         /\ \A j \in 1..(i - 1) : list.v[j].id # wanted]
  ELSE Undefined

\* seq.map(f).filter(x => !!x) for a lookup f
RECURSIVE FindAll(_, _, _)
FindAll(ids, list, keepMissing) ==
  IF ids = <<>> THEN <<>>
  ELSE LET found == Find(list, ids[1])
           rest == FindAll(Tail(ids), list, keepMissing)
       IN IF found = Undefined /\ ~keepMissing THEN rest ELSE <<found>> \o rest

\* The editors of one article, resolved against its contributors, each with
\* its affiliation ids looked up in the article's affiliations (an id that
\* is not found stays as undefined; an editor without affiliations keeps
\* affiliations undefined).
ResolveEditors(fm) ==
  LET found == FindAll(fm.editors.v, fm.contributors, FALSE)
  IN Arr([i \in 1..Len(found) |->
            [found[i] EXCEPT !.affiliations =
               IF found[i].affiliations.t # "arr" THEN Undefined
               ELSE Arr(FindAll(found[i].affiliations.v, fm.affiliations, TRUE))]])

EmptyIssueData ==
  [n \in ScalarNames \cup {"publicationEditors"} |-> Undefined]

\* The scalar if-blocks of one article, in order; stops at the first throw.
RECURSIVE FoldScalars(_, _, _)
FoldScalars(fm, k, acc) ==
  IF k > Len(ScalarFields) THEN [t |-> "ok", data |-> acc]
  ELSE LET f == ScalarFields[k]
           r == FoldField(f, acc[f.name], fm[f.from])
       IN IF r.t = "throw" THEN r
          ELSE FoldScalars(fm, k + 1, [acc EXCEPT ![f.name] = r])

\* FoldArticle with `if (editors)` for `if (editors?.length)`.
FoldArticle_EmptyOverwrites(fm, acc) ==
  LET r == FoldScalars(fm, 1, acc)
  IN IF r.t = "throw" THEN r
     ELSE IF fm.editors.t = "arr"
       THEN [t |-> "ok", data |-> [r.data EXCEPT !.publicationEditors = ResolveEditors(fm)]]
     ELSE r

\* The body of articles.forEach for one article.
FoldArticle(fm, acc) ==
  LET r == FoldScalars(fm, 1, acc)
  IN IF r.t = "throw" THEN r
     ELSE IF fm.editors.t = "arr" /\ Len(fm.editors.v) # 0
       THEN [t |-> "ok", data |-> [r.data EXCEPT !.publicationEditors = ResolveEditors(fm)]]
     ELSE r

RECURSIVE FoldArticles(_, _, _)
FoldArticles(articles, i, acc) ==
  IF i > Len(articles) THEN [t |-> "ok", data |-> acc]
  ELSE LET r == FoldArticle(articles[i].frontmatter, acc)
       IN IF r.t = "throw" THEN r ELSE FoldArticles(articles, i + 1, r.data)

issueDataFromArticles(articles) == FoldArticles(articles, 1, EmptyIssueData)

(***************************************************************************)
(* The record built for one article (deposit, the head of the loop body).  *)
(***************************************************************************)
\* `${x}` inside a template literal
Interpolate(x) ==
  CASE x.t = "str" -> x.v
    [] x.t = "num" -> DecimalOf(x.v)
    [] OTHER -> <<x.t>>

\* strings.join(', '); undefined and null entries print as nothing
RECURSIVE Join(_)
Join(strings) ==
  IF strings = <<>> THEN <<>>
  ELSE LET head == IF strings[1].t = "str" THEN strings[1].v ELSE <<>>
       IN IF Len(strings) = 1 THEN head
          ELSE head \o <<",", " ">> \o Join(Tail(strings))

RECURSIVE NamesOf(_)
NamesOf(affs) ==
  IF affs = <<>> THEN <<>>
  ELSE <<IF affs[1] = Undefined THEN Undefined ELSE affs[1].name>> \o NamesOf(Tail(affs))

RECURSIVE FilterTruthy(_)
FilterTruthy(xs) ==
  IF xs = <<>> THEN <<>>
  ELSE (IF Truthy(xs[1]) THEN <<xs[1]>> ELSE <<>>) \o FilterTruthy(Tail(xs))

\* Creator without the filter of the names that are not there.
Creator_NoFilter(a, fm) ==
  [name |-> Str(Interpolate(IF a.nameParsed = Undefined THEN Undefined ELSE a.nameParsed.family)
                  \o <<",", " ">>
                  \o Interpolate(IF a.nameParsed = Undefined THEN Undefined ELSE a.nameParsed.given)),
   affiliation |->
     IF a.affiliations.t # "arr" THEN Undefined
     ELSE Str(Join(NamesOf(FindAll(a.affiliations.v, fm.affiliations, TRUE)))),
   orcid |-> a.orcid]

\* One author mapped to a creator.
Creator(a, fm) ==
  [name |-> Str(Interpolate(IF a.nameParsed = Undefined THEN Undefined ELSE a.nameParsed.family)
                  \o <<",", " ">>
                  \o Interpolate(IF a.nameParsed = Undefined THEN Undefined ELSE a.nameParsed.given)),
   affiliation |->
     IF a.affiliations.t # "arr" THEN Undefined
     ELSE Str(Join(FilterTruthy(NamesOf(FindAll(a.affiliations.v, fm.affiliations, TRUE))))),
   orcid |-> a.orcid]

Creators(fm) ==
  IF fm.authors.t # "arr" THEN <<>>
  ELSE [i \in 1..Len(fm.authors.v) |-> Creator(fm.authors.v[i], fm)]

\* e.affiliations.map((a) => a.name) reads a property of undefined when the
\* editor has no affiliations or one of them was not found.
EditorThrows(e) ==
  \/ e.affiliations.t # "arr"
  \/ \E i \in 1..Len(e.affiliations.v) : e.affiliations.v[i] = Undefined

EditorContributor(e) ==
  [type |-> "Editor", name |-> e.name, orcid |-> e.orcid,
   affiliation |-> Str(Join(NamesOf(e.affiliations.v)))]

InputError(what) == [t |-> "throw", error |-> "input", what |-> what]

\* BuildRecord without the test of the abstract (line 394).
BuildRecord_NoAbstractCheck(article, depositType, issue) ==
  IF ~Truthy(article.frontmatter.title) THEN InputError("title")
  ELSE [t |-> "ok", data |-> [title |-> article.frontmatter.title,
                               description |-> article.abstract,
                               upload_type |-> depositType]]

\* BuildRecord with the conference fields set whatever the deposit type.
BuildRecord_ConferenceForAll(article, depositType, issue) ==
  LET fm == article.frontmatter
  IN IF ~Truthy(fm.title) THEN InputError("title")
     ELSE IF ~Truthy(article.abstract) THEN InputError("abstract")
     ELSE [t |-> "ok",
           data |-> [title |-> fm.title,
                     description |-> article.abstract,
                     upload_type |-> depositType,
                     conference_title |-> issue.venueTitle,
                     conference_acronym |-> issue.venueAbbr]]

\* Lines 393-433: the two required-field checks, then the record.
BuildRecord(article, depositType, issue) ==
  LET fm == article.frontmatter
      base == [title |-> fm.title,
               description |-> article.abstract,
               upload_type |-> depositType,
               publication_date |-> fm.date,
               imprint_publisher |->
                 IF Truthy(issue.venueAbbr) THEN issue.venueAbbr ELSE issue.venueTitle,
               creators |-> Creators(fm),
               doi |-> fm.doi]
      editors == issue.publicationEditors
      conference ==
        [conference_title |-> issue.venueTitle,
         contributors |->
           IF editors.t # "arr" THEN Undefined
           ELSE Arr([i \in 1..Len(editors.v) |-> EditorContributor(editors.v[i])]),
         conference_acronym |-> issue.venueAbbr,
         conference_url |-> issue.venueUrl,
         conference_dates |-> issue.eventDate,
         conference_place |-> issue.eventLocation]
      custom == [custom |-> fm.github]
  IN IF ~Truthy(fm.title) THEN InputError("title")
     ELSE IF ~Truthy(article.abstract) THEN InputError("abstract")
     ELSE IF depositType # Str(<<"presentation">>) THEN [t |-> "ok", data |-> base]
     ELSE IF editors.t = "arr" /\ \E i \in 1..Len(editors.v) : EditorThrows(editors.v[i])
       THEN [t |-> "throw", error |-> "TypeError"]
     ELSE [t |-> "ok",
           data |-> IF Truthy(fm.github) THEN base @@ conference @@ custom
                    ELSE base @@ conference]

(***************************************************************************)
(* ZenodoClient.  An operation is a function of its arguments and of what  *)
(* the service answers to each request: it gives the requests issued, in   *)
(* order and each with its answer, and the value returned or the error     *)
(* thrown.  An answer is a response with a status and a body, or no        *)
(* response at all (axios rejects every status outside 200..299).          *)
(***************************************************************************)
Response(status, body) == [t |-> "response", status |-> status, data |-> body]
NoResponse(message) == [t |-> "none", message |-> message]

\* axios resolves the promise
Resolves(answer) == answer.t = "response" /\ answer.status \in 200..299

\* this.baseURL
BaseURL(sandbox) == <<"https:", "/", "/", Host(sandbox), "/", "api">>

Depositions == <<"/", "deposit", "/", "depositions">>

\* One request of the axios instance: baseURL and access_token are its
\* defaults.
Request(method, url, body, client, answer) ==
  [method |-> method, url |-> url, body |-> body,
   access_token |-> client.accessToken, answer |-> answer]

Returned(value) == [t |-> "return", data |-> value]

\* handleError that logs the error and throws nothing.
handleError_LogsOnly(answer) == Returned(Undefined)

\* handleError: the error thrown for a rejected request.
handleError(answer) ==
  IF answer.t = "response"
  THEN [t |-> "throw", error |-> "API Error", status |-> answer.status, data |-> answer.data]
  ELSE [t |-> "throw", error |-> "Error", message |-> answer.message]

\* try { const response = await request; return response.data } catch ...
OneRequest(request) ==
  [requests |-> <<request>>,
   result |-> IF Resolves(request.answer) THEN Returned(request.answer.data)
              ELSE handleError(request.answer)]

\* createDeposition that posts the record itself.
createDeposition_BareRecord(client, metadata, answer) ==
  OneRequest(Request("POST", BaseURL(client.sandbox) \o Depositions, metadata, client, answer))

createDeposition(client, metadata, answer) ==
  OneRequest(Request("POST", BaseURL(client.sandbox) \o Depositions,
                     [metadata |-> metadata], client, answer))

updateDeposition(client, depositionId, metadata, answer) ==
  OneRequest(Request("PUT", BaseURL(client.sandbox) \o Depositions \o <<"/">>
                              \o DecimalOf(depositionId),
                     [metadata |-> metadata], client, answer))

listFiles(client, depositionId, answer) ==
  OneRequest(Request("GET", BaseURL(client.sandbox) \o Depositions \o <<"/">>
                              \o DecimalOf(depositionId) \o <<"/", "files">>,
                     Undefined, client, answer))

publishDeposition(client, depositionId, answer) ==
  OneRequest(Request("POST", BaseURL(client.sandbox) \o Depositions \o <<"/">>
                               \o DecimalOf(depositionId) \o <<"/", "actions", "/", "publish">>,
                     Undefined, client, answer))

\* path.basename(filePath): what follows the last separator.
Basename(filePath) == LET pieces == Split(filePath) IN pieces[Len(pieces)]

\* encodeURIComponent: a space and a separator are escaped, letters stay.
RECURSIVE encodeURIComponent(_)
encodeURIComponent(name) ==
  IF name = <<>> THEN <<>>
  ELSE (CASE name[1] = " " -> <<"%20">>
          [] name[1] = "/" -> <<"%2F">>
          [] OTHER -> <<name[1]>>) \o encodeURIComponent(Tail(name))

\* uploadFile: the deposit is fetched for its bucket, then the file is put
\* there under its base name.  A deposit without links, and a file that is
\* not there (statSync), throw inside the try before the second request.
uploadFile(client, depositionId, file, fetched, put) ==
  LET get == Request("GET", BaseURL(client.sandbox) \o Depositions \o <<"/">>
                              \o DecimalOf(depositionId),
                     Undefined, client, fetched)
  IN IF ~Resolves(fetched)
     THEN [requests |-> <<get>>, result |-> handleError(fetched)]
     ELSE IF "links" \notin DOMAIN fetched.data
     THEN [requests |-> <<get>>, result |-> handleError(NoResponse(Str(<<"TypeError">>)))]
     ELSE IF ~file.exists
     THEN [requests |-> <<get>>, result |-> handleError(NoResponse(Str(<<"ENOENT">>)))]
     ELSE LET request == Request("PUT", fetched.data.links.bucket \o <<"/">>
                                          \o encodeURIComponent(Basename(file.path)),
                                 [stream |-> file.path], client, put)
          IN [requests |-> <<get, request>>,
              result |-> IF Resolves(put) THEN Returned(put.data) ELSE handleError(put)]

(***************************************************************************)
(* The deposit command.  One run is the function deposit; the project      *)
(* files outlive it, and the command may be run again on them.             *)
(***************************************************************************)
VARIABLES
  pc,               \* where the run stands
  run,              \* the number of the run (1 is the first)
  token,            \* process.env.ZENODO_TOKEN
  sandbox,          \* opts.sandbox
  publish,          \* opts.publish
  depositType,      \* opts.type
  sources,          \* the article contexts, in the order they are collected
  files,            \* the lines of each project's configuration file
  depositArticles,  \* the collected articles, sorted by first_page
  issue,            \* what issueDataFromArticles returned
  index,            \* the loop over the articles (from 0, as in the source)
  jj,               \* the loop over the downloads of the article (from 0)
  zenodoDepositId,  \* the id of the article's deposit
  data,             \* the record built for the article
  calls,            \* the calls made on the client in this run, in order
  err,              \* the error the run ended with
  bound,            \* per project: the id and run of the last binding written
  startFiles        \* the files as they were when the run started

vars == <<pc, run, token, sandbox, publish, depositType, sources, files, depositArticles,
          issue, index, jj, zenodoDepositId, data, calls, err, bound, startFiles>>

NoError == [t |-> "none"]
NoData == [t |-> "none"]

\* Number(x) of a first_page
Number(x) ==
  CASE x.t = "num" -> x
    [] x.t = "str" ->
         IF x.v = <<>> THEN Num(0)
         ELSE IF \A i \in 1..Len(x.v) : IsDigit(x.v[i]) THEN ParseInt(x.v)
         ELSE NaN
    [] x.t = "null" -> Num(0)
    [] OTHER -> NaN

\* The comparator of the sort: Number(a.first_page) - Number(b.first_page);
\* a NaN difference counts as 0.
Compare(a, b) ==
  LET x == Number(a.frontmatter.first_page)
      y == Number(b.frontmatter.first_page)
  IN IF x.t = "num" /\ y.t = "num" THEN x.v - y.v ELSE 0

\* Array.prototype.sort is stable: insert each article after the articles
\* that do not compare greater.
RECURSIVE InsertSorted(_, _)
InsertSorted(sorted, a) ==
  IF sorted = <<>> THEN <<a>>
  ELSE IF Compare(sorted[Len(sorted)], a) <= 0 THEN Append(sorted, a)
  ELSE Append(InsertSorted(SubSeq(sorted, 1, Len(sorted) - 1), a), sorted[Len(sorted)])

RECURSIVE SortFrom(_, _, _)
SortFrom(list, i, sorted) ==
  IF i > Len(list) THEN sorted ELSE SortFrom(list, i + 1, InsertSorted(sorted, list[i]))

SortByFirstPage(list) == SortFrom(list, 1, <<>>)

\* One call on the client: the operation, the article (its place in
\* depositArticles, from 0), the deposit id passed or returned, the download
\* (from 0), whether the endpoint is the sandbox, and whether it returned.
Call(op, art, id, file, ok) ==
  [op |-> op, art |-> art, id |-> id, file |-> file, sandbox |-> sandbox, ok |-> ok]

Fail(e) ==
  /\ pc' = "error"
  /\ err' = e

\* Start with a client that takes any token.
Start_NoTokenCheck ==
  /\ pc = "start"
  /\ IF ~Truthy(depositType)
     THEN Fail(InputError("type"))
     ELSE pc' = "collect" /\ err' = err
  /\ UNCHANGED <<run, token, sandbox, publish, depositType, sources, files, depositArticles,
                 issue, index, jj, zenodoDepositId, data, calls, bound, startFiles>>

\* new ZenodoClient(process.env.ZENODO_TOKEN, sandbox) throws without a
\* token; then the deposit type must be there.
Start ==
  /\ pc = "start"
  /\ IF ~Truthy(token)
     THEN Fail([t |-> "throw", error |-> "config"])
     ELSE IF ~Truthy(depositType)
     THEN Fail(InputError("type"))
     ELSE pc' = "collect" /\ err' = err
  /\ UNCHANGED <<run, token, sandbox, publish, depositType, sources, files, depositArticles,
                 issue, index, jj, zenodoDepositId, data, calls, bound, startFiles>>

\* Collect that takes an empty list of articles as nothing to do.
Collect_NoEmptyCheck ==
  /\ pc = "collect"
  /\ LET sorted == SortByFirstPage(sources)
         r == issueDataFromArticles(sorted)
     IN /\ depositArticles' = sorted
        /\ IF Len(sorted) = 0
           THEN pc' = "done" /\ err' = err /\ issue' = issue
           ELSE IF r.t = "throw"
           THEN Fail(r) /\ issue' = issue
           ELSE pc' = "build" /\ err' = err /\ issue' = r.data
  /\ index' = 0
  /\ UNCHANGED <<run, token, sandbox, publish, depositType, sources, files, jj,
                 zenodoDepositId, data, calls, bound, startFiles>>

\* Lines 377-388: the collected articles are sorted, an empty list is an
\* error, and the issue data is reconciled over all of them.
Collect ==
  /\ pc = "collect"
  /\ LET sorted == SortByFirstPage(sources)
         r == issueDataFromArticles(sorted)
     IN /\ depositArticles' = sorted
        /\ IF Len(sorted) = 0
           THEN Fail(InputError("nothing found")) /\ issue' = issue
           ELSE IF r.t = "throw"
           THEN Fail(r) /\ issue' = issue
           ELSE pc' = "build" /\ err' = err /\ issue' = r.data
  /\ index' = 0
  /\ UNCHANGED <<run, token, sandbox, publish, depositType, sources, files, jj,
                 zenodoDepositId, data, calls, bound, startFiles>>

\* Lines 391-433: the head of the loop body for article index.
Build ==
  /\ pc = "build"
  /\ LET article == depositArticles[index + 1]
         id == getZenodoId(article.configFile, files)
         r == BuildRecord(article, depositType, issue)
     IN IF id.t = "throw"
        THEN Fail([t |-> "throw", error |-> "yaml"]) /\ UNCHANGED <<zenodoDepositId, data>>
        ELSE /\ zenodoDepositId' = id
             /\ IF r.t = "throw"
                THEN Fail(r) /\ data' = data
                ELSE pc' = "submit" /\ err' = err /\ data' = r.data
  /\ UNCHANGED <<run, token, sandbox, publish, depositType, sources, files, depositArticles,
                 issue, index, jj, calls, bound, startFiles>>

\* article.project?.downloads?.length ?? 0
DownloadCount(article) ==
  IF article.downloads.t = "arr" THEN Len(article.downloads.v) ELSE 0

\* The first download from j on that has a url (the others are skipped
\* without a call), or the number of downloads when there is none.
RECURSIVE NextDownload(_, _)
NextDownload(article, j) ==
  IF j >= DownloadCount(article) THEN DownloadCount(article)
  ELSE IF Truthy(article.downloads.v[j + 1].url) THEN j
  ELSE NextDownload(article, j + 1)

\* Continue that leaves the files of an article for later and goes on with
\* the next article.
Continue_FilesLater(j) ==
  /\ jj' = DownloadCount(depositArticles[index + 1])
  /\ index' = index + 1
  /\ pc' = IF index + 1 < Len(depositArticles) THEN "build" ELSE "done"

\* The loops continue at download j of article index: the next upload, the
\* next article, or the end of the run.
Continue(j) ==
  LET article == depositArticles[index + 1]
      next == NextDownload(article, j)
  IN IF next < DownloadCount(article)
     THEN pc' = "upload" /\ jj' = next /\ index' = index
     ELSE /\ jj' = next
          /\ index' = index + 1
          /\ pc' = IF index + 1 < Len(depositArticles) THEN "build" ELSE "done"

RemoteError(op) == [t |-> "throw", error |-> "remote", op |-> op]

\* The ids the service may assign to a new deposit.
DepositIds == 9..(8 + MaxIds)

\* Lines 434-448: update the deposit the binding names, or create one and
\* write the binding.  Either call may throw.
Submit ==
  /\ pc = "submit"
  /\ LET article == depositArticles[index + 1]
     IN IF Truthy(zenodoDepositId)
        THEN \E ok \in BOOLEAN :
               /\ calls' = Append(calls, Call("update", index, zenodoDepositId.v, -1, ok))
               /\ IF ok THEN Continue(0) /\ err' = err
                  ELSE Fail(RemoteError("update")) /\ UNCHANGED <<index, jj>>
               /\ UNCHANGED <<zenodoDepositId, files, bound>>
        ELSE \/ \E id \in DepositIds :
                  /\ calls' = Append(calls, Call("create", index, id, -1, TRUE))
                  /\ zenodoDepositId' = Num(id)
                  /\ IF Truthy(article.configFile)
                     THEN /\ files' = [files EXCEPT ![article.configFile.v] =
                                         addZenodoToConfig(@, id, sandbox)]
                          /\ bound' = [bound EXCEPT ![article.configFile.v] =
                                         [id |-> id, run |-> run]]
                     ELSE UNCHANGED <<files, bound>>
                  /\ Continue(0)
                  /\ err' = err
             \/ /\ calls' = Append(calls, Call("create", index, 0, -1, FALSE))
                /\ Fail(RemoteError("create"))
                /\ UNCHANGED <<zenodoDepositId, files, bound, index, jj>>
  /\ UNCHANGED <<run, token, sandbox, publish, depositType, sources, depositArticles, issue, data,
                 startFiles>>

\* Lines 452-454: the path of download jj (path.dirname throws on an
\* undefined configFile), then the first attempt to upload it.
Upload ==
  /\ pc = "upload"
  /\ IF ~Truthy(depositArticles[index + 1].configFile)
     THEN Fail([t |-> "throw", error |-> "TypeError"]) /\ UNCHANGED <<calls, index, jj>>
     ELSE \E ok \in BOOLEAN :
            /\ calls' = Append(calls, Call("upload", index, zenodoDepositId.v, jj, ok))
            /\ IF ok THEN Continue(jj + 1) ELSE pc' = "retry" /\ UNCHANGED <<index, jj>>
            /\ err' = err
  /\ UNCHANGED <<run, token, sandbox, publish, depositType, sources, files, depositArticles,
                 issue, zenodoDepositId, data, bound, startFiles>>

\* A retry that is itself retried when it throws.
Retry_Again ==
  /\ pc = "retry"
  /\ \E ok \in BOOLEAN :
       /\ calls' = Append(calls, Call("upload", index, zenodoDepositId.v, jj, ok))
       /\ IF ok THEN Continue(jj + 1) ELSE UNCHANGED <<pc, index, jj>>
       /\ err' = err
  /\ UNCHANGED <<run, token, sandbox, publish, depositType, sources, files, depositArticles,
                 issue, zenodoDepositId, data, bound, startFiles>>

\* A retry whose error is caught too: the loop goes on with the next file.
Retry_Swallowed ==
  /\ pc = "retry"
  /\ \E ok \in BOOLEAN :
       /\ calls' = Append(calls, Call("upload", index, zenodoDepositId.v, jj, ok))
       /\ Continue(jj + 1)
       /\ err' = err
  /\ UNCHANGED <<run, token, sandbox, publish, depositType, sources, files, depositArticles,
                 issue, zenodoDepositId, data, bound, startFiles>>

\* Line 457: the second attempt, in the catch block; its error is not caught.
Retry ==
  /\ pc = "retry"
  /\ \E ok \in BOOLEAN :
       /\ calls' = Append(calls, Call("upload", index, zenodoDepositId.v, jj, ok))
       /\ IF ok THEN Continue(jj + 1) /\ err' = err
          ELSE Fail(RemoteError("upload")) /\ UNCHANGED <<index, jj>>
  /\ UNCHANGED <<run, token, sandbox, publish, depositType, sources, files, depositArticles,
                 issue, zenodoDepositId, data, bound, startFiles>>

\* The command is run again on the same projects.
NewRun ==
  /\ pc \in {"done", "error"}
  /\ run < MaxRuns
  /\ run' = run + 1
  /\ pc' = "start"
  /\ sandbox' \in BOOLEAN
  /\ calls' = <<>>
  /\ err' = NoError
  /\ index' = 0
  /\ jj' = 0
  /\ zenodoDepositId' = Undefined
  /\ data' = NoData
  /\ depositArticles' = <<>>
  /\ issue' = EmptyIssueData
  /\ startFiles' = files
  /\ UNCHANGED <<token, publish, depositType, sources, files, bound>>

Next == Start \/ Collect \/ Build \/ Submit \/ Upload \/ Retry

(***************************************************************************)
(* The client used on its own, as its tests use it: it is constructed and  *)
(* then its operations are called, one after the other; calls holds each   *)
(* call with its requests and its result.                                  *)
(***************************************************************************)
\* new ZenodoClient(accessToken, sandbox)
Construct ==
  /\ pc = "new"
  /\ IF ~Truthy(token)
     THEN Fail([t |-> "throw", error |-> "config"])
     ELSE pc' = "client" /\ err' = err
  /\ UNCHANGED <<run, token, sandbox, publish, depositType, sources, files, depositArticles,
                 issue, index, jj, zenodoDepositId, data, calls, bound, startFiles>>

Client == [accessToken |-> token, sandbox |-> sandbox]

\* What the service may answer.
Failures ==
  {Response(400, Str(<<"invalid">>)), Response(500, Str(<<"down">>)),
   NoResponse(Str(<<"timeout">>))}

Bucket == <<"https:", "/", "/", "files", "/", "bucket">>

Deposition(id) == [id |-> id, links |-> [bucket |-> Bucket, html |-> <<"html">>]]

Records ==
  {[title |-> Str(<<"T">>), upload_type |-> Str(<<"presentation">>)],
   [title |-> Str(<<"T">>), upload_type |-> Str(<<"dataset">>), doi |-> Undefined]}

LocalFiles ==
  {[path |-> <<"dir", "/", "paper.pdf">>, exists |-> TRUE],
   [path |-> <<"dir", "/", "my", " ", "paper.pdf">>, exists |-> TRUE],
   [path |-> <<"gone.pdf">>, exists |-> FALSE]}

ClientCall(op, id, metadata, file, r) ==
  [op |-> op, id |-> id, metadata |-> metadata, file |-> file,
   requests |-> r.requests, result |-> r.result]

Called(call) ==
  /\ pc = "client"
  /\ Len(calls) < MaxCalls
  /\ calls' = Append(calls, call)
  /\ UNCHANGED <<pc, run, token, sandbox, publish, depositType, sources, files, depositArticles,
                 issue, index, jj, zenodoDepositId, data, err, bound, startFiles>>

CreateDeposition ==
  \E metadata \in Records :
    \E answer \in {Response(201, Deposition(id)) : id \in DepositIds} \cup Failures :
      Called(ClientCall("create", 0, metadata, Undefined,
                        createDeposition(Client, metadata, answer)))

UpdateDeposition ==
  \E metadata \in Records : \E answer \in {Response(200, Deposition(42))} \cup Failures :
    Called(ClientCall("update", 42, metadata, Undefined,
                      updateDeposition(Client, 42, metadata, answer)))

UploadFile ==
  \E file \in LocalFiles :
    \E fetched \in {Response(200, Deposition(42)), Response(200, [id |-> 42])} \cup Failures :
      \E put \in {Response(200, [key |-> Basename(file.path)])} \cup Failures :
        Called(ClientCall("upload", 42, Undefined, file,
                          uploadFile(Client, 42, file, fetched, put)))

ListFiles ==
  \E answer \in {Response(200, <<>>)} \cup Failures :
    Called(ClientCall("list", 42, Undefined, Undefined, listFiles(Client, 42, answer)))

PublishDeposition ==
  \E answer \in {Response(202, Deposition(42))} \cup Failures :
    Called(ClientCall("publish", 42, Undefined, Undefined,
                      publishDeposition(Client, 42, answer)))

NextClient ==
  Construct \/ CreateDeposition \/ UpdateDeposition \/ UploadFile \/ ListFiles
    \/ PublishDeposition

NextRuns == Next \/ NewRun

(***************************************************************************)
(* The inputs of the model.                                                *)
(***************************************************************************)
Text(c) == Str(<<c>>)

BaseFrontmatter ==
  [title |-> Undefined, date |-> Undefined, doi |-> Undefined, github |-> Undefined,
   first_page |-> Undefined, authors |-> Undefined, editors |-> Undefined,
   contributors |-> Undefined, affiliations |-> Undefined,
   venue_title |-> Undefined, venue_short_title |-> Undefined, venue_doi |-> Undefined,
   venue_url |-> Undefined, venue_series |-> Undefined, venue_issn |-> Undefined,
   venue_number |-> Undefined, venue_date |-> Undefined, venue_location |-> Undefined,
   venue_publisher |-> Undefined, volume_number |-> Undefined, volume_doi |-> Undefined,
   volume_title |-> Undefined, volume_subject |-> Undefined, issue_number |-> Undefined,
   issue_doi |-> Undefined]

\* An article context: what depositArticleFromSource returns for a project
\* (project i keeps its configuration in file i).
Article(i, fm, abstract, downloads) ==
  [frontmatter |-> fm, abstract |-> abstract, configFile |-> Num(i),
   downloads |-> downloads]

ProjectIds == 1..MaxProjects

\* A configuration file without a binding; the entries of a mapping are
\* indented by `width` spaces.
PlainFile(width) ==
  <<Line(0, "version", Text("1")),
    Line(0, "project", Block),
    Line(width, "title", Text("T")),
    Line(0, "site", Block),
    Line(width, "template", Text("book"))>>

Downloads ==
  {Arr(d) : d \in UNION {[1..k -> {[url |-> Text("f")], [url |-> Undefined]}] :
                            k \in 0..MaxFiles}}

Shapes ==
  [title : {Undefined, Text("T")}, abstract : {Undefined, Text("A")},
   first_page : {Num(1), Num(2)}, downloads : Downloads]

ShapedArticle(i, shape) ==
  Article(i, [BaseFrontmatter EXCEPT !.title = shape.title,
                                     !.first_page = shape.first_page],
          shape.abstract, shape.downloads)

NoBinding == [id |-> 0, run |-> 0]

RunInit ==
  /\ pc = "start"
  /\ run = 1
  /\ depositArticles = <<>>
  /\ issue = EmptyIssueData
  /\ index = 0
  /\ jj = 0
  /\ zenodoDepositId = Undefined
  /\ data = NoData
  /\ calls = <<>>
  /\ err = NoError
  /\ bound = [p \in ProjectIds |-> NoBinding]

\* One run over up to MaxArticles projects, each with or without a binding
\* (to deposit 42) in its file.
Init ==
  /\ RunInit
  /\ token \in {Undefined, Text("secret")}
  /\ sandbox = FALSE
  /\ publish = FALSE
  /\ depositType \in {Text("presentation"), Text("dataset")}
  /\ \E n \in 0..MaxArticles :
       /\ \E shapes \in [1..n -> Shapes] :
            sources = [i \in 1..n |-> ShapedArticle(i, shapes[i])]
       /\ files \in [ProjectIds ->
                       {PlainFile(2), addZenodoToConfig(PlainFile(2), 42, FALSE)}]
       /\ \A p \in ProjectIds : p > n => files[p] = PlainFile(2)
  /\ startFiles = files

Spec == Init /\ [][Next]_vars

\* The command run up to MaxRuns times, with or without --sandbox, on
\* projects that start without a binding; the files differ in how far the
\* entries of a mapping are indented.
InitRuns ==
  /\ RunInit
  /\ token = Text("secret")
  /\ sandbox \in BOOLEAN
  /\ publish = FALSE
  /\ depositType = Text("presentation")
  /\ \E n \in 1..MaxArticles :
       /\ \E d \in [1..n -> {Arr(<<>>), Arr(<<[url |-> Text("f")]>>)}] :
            sources = [i \in 1..n |->
                         Article(i, [BaseFrontmatter EXCEPT !.title = Text("T"),
                                                            !.first_page = Num(i)],
                                 Text("A"), d[i])]
       /\ files \in [ProjectIds -> {PlainFile(2), PlainFile(4)}]
       /\ \A p \in ProjectIds : p > n => files[p] = PlainFile(2)
  /\ startFiles = files

SpecRuns == InitRuns /\ [][NextRuns]_vars

\* The values the frontmatter may give a reconciled field: a number is a
\* number or a string (venue.number, volume.number, issue.number), every
\* other field is a non-empty string; a key may be missing or null.
NumberFields == {"venue_number", "volume_number", "issue_number"}

FieldValues(f) ==
  IF f.from \in NumberFields
  THEN {Undefined, Null, Num(0), Num(1), Text("1"), Text("2")}
  ELSE {Undefined, Null, Text("A"), Text("B")}

\* The command up to the reconciliation, over articles that give one of the
\* reconciled fields (the same field in every article).  No article has a
\* first_page, so the sort keeps the order of the input.
InitReconcile ==
  /\ RunInit
  /\ token = Text("secret")
  /\ sandbox = FALSE
  /\ publish = FALSE
  /\ depositType = Text("presentation")
  /\ files = [p \in ProjectIds |-> PlainFile(2)]
  /\ startFiles = files
  /\ \E k \in 1..Len(ScalarFields) : \E n \in 0..MaxArticles :
       \E values \in [1..n -> FieldValues(ScalarFields[k])] :
         sources = [i \in 1..n |->
                      Article(i, [BaseFrontmatter EXCEPT !.title = Text("T"),
                                                         ![ScalarFields[k].from] = values[i]],
                              Text("A"), Arr(<<>>))]

NextReconcile == Start \/ Collect

SpecReconcile == InitReconcile /\ [][NextReconcile]_vars

\* The contributors and affiliations of the article of project i: x has an
\* affiliation, y has none, and no contributor is called z.
PersonNames == <<"n1", "n2", "n3", "n4">>

Contributors(i) ==
  Arr(<<[id |-> "x", name |-> Text(PersonNames[i]), orcid |-> Undefined,
         affiliations |-> Arr(<<"a1">>)],
        [id |-> "y", name |-> Text(PersonNames[i]), orcid |-> Text("0000"),
         affiliations |-> Undefined]>>)

Affiliations == Arr(<<[id |-> "a1", name |-> Text("Zenodo")]>>)

EditorLists == {Undefined, Arr(<<>>), Arr(<<"x">>), Arr(<<"y">>), Arr(<<"z", "x">>)}

\* The command up to the reconciliation, over articles with and without
\* editors and with and without a venue title.
InitEditors ==
  /\ RunInit
  /\ token = Text("secret")
  /\ sandbox = FALSE
  /\ publish = FALSE
  /\ depositType = Text("presentation")
  /\ files = [p \in ProjectIds |-> PlainFile(2)]
  /\ startFiles = files
  /\ \E n \in 0..MaxArticles :
       \E editors \in [1..n -> EditorLists] :
         \E titles \in [1..n -> {Undefined, Text("A"), Text("B")}] :
           sources = [i \in 1..n |->
                        Article(i, [BaseFrontmatter EXCEPT !.title = Text("T"),
                                                           !.venue_title = titles[i],
                                                           !.editors = editors[i],
                                                           !.contributors = Contributors(i),
                                                           !.affiliations = Affiliations],
                                Text("A"), Arr(<<>>))]

SpecEditors == InitEditors /\ [][NextReconcile]_vars

\* An author of an article, with an affiliation of the article.
Authors ==
  Arr(<<[nameParsed |-> [family |-> Text("Doe"), given |-> Text("Jane")],
         affiliations |-> Arr(<<"a1">>), orcid |-> Undefined]>>)

UploadTypes == {Text("presentation"), Text("dataset"), Text("publication")}

BuildShapes ==
  [github : {Undefined, Text("repo")},
   venue_title : {Undefined, Text("V")},
   editors : {Undefined, Arr(<<"x">>), Arr(<<"y">>)}]

\* One run with a deposit type of the service, over articles that have a
\* title, an abstract and an author, with or without a repository, a venue
\* title and editors, and nothing to upload.
InitBuild ==
  /\ RunInit
  /\ token = Text("secret")
  /\ sandbox = FALSE
  /\ publish = FALSE
  /\ depositType \in UploadTypes
  /\ files = [p \in ProjectIds |-> PlainFile(2)]
  /\ startFiles = files
  /\ \E n \in 1..MaxArticles : \E shapes \in [1..n -> BuildShapes] :
       sources = [i \in 1..n |->
                    Article(i, [BaseFrontmatter EXCEPT !.title = Text("T"),
                                                       !.authors = Authors,
                                                       !.github = shapes[i].github,
                                                       !.venue_title = shapes[i].venue_title,
                                                       !.editors = shapes[i].editors,
                                                       !.contributors = Contributors(i),
                                                       !.affiliations = Affiliations],
                            Text("A"), Arr(<<>>))]

\* Without downloads the run never gets to an upload.
NextBuild == Start \/ Collect \/ Build \/ Submit

SpecBuild == InitBuild /\ [][NextBuild]_vars

\* The authors an article may name: a person with both names and an orcid,
\* and a person with a family name only; each with no list of affiliations
\* or with a list of ids, of which zz is no affiliation of the article and
\* a3 is an affiliation without a name.
MaxAuthors == 2

AuthorAffiliations ==
  Arr(<<[id |-> "a1", name |-> Text("Zenodo")],
        [id |-> "a2", name |-> Text("CERN")],
        [id |-> "a3", name |-> Str(<<>>)]>>)

Persons ==
  {[nameParsed |-> [family |-> Text("Doe"), given |-> Text("Jane")], orcid |-> Text("0000")],
   [nameParsed |-> [family |-> Text("Roe"), given |-> Undefined], orcid |-> Undefined]}

AffiliationIds ==
  {Undefined, Arr(<<"a1">>), Arr(<<"a1", "a2">>), Arr(<<"zz", "a3", "a1">>)}

AuthorSet ==
  {[nameParsed |-> p.nameParsed, orcid |-> p.orcid, affiliations |-> ids] :
     p \in Persons, ids \in AffiliationIds}

AuthorLists ==
  {Undefined} \cup {Arr(l) : l \in UNION {[1..k -> AuthorSet] : k \in 0..MaxAuthors}}

\* One run over one article with a title and an abstract, with or without
\* authors, and nothing to upload.
InitCreators ==
  /\ RunInit
  /\ token = Text("secret")
  /\ sandbox = FALSE
  /\ publish = FALSE
  /\ depositType \in {Text("presentation"), Text("dataset")}
  /\ files = [p \in ProjectIds |-> PlainFile(2)]
  /\ startFiles = files
  /\ \E authors \in AuthorLists :
       sources = <<Article(1, [BaseFrontmatter EXCEPT !.title = Text("T"),
                                                      !.authors = authors,
                                                      !.affiliations = AuthorAffiliations],
                           Text("A"), Arr(<<>>))>>

SpecCreators == InitCreators /\ [][NextBuild]_vars

\* One run over the projects found, each with one article that has a title
\* and an abstract, with or without a first_page, and nothing to upload.
InitOrder ==
  /\ RunInit
  /\ token = Text("secret")
  /\ sandbox = FALSE
  /\ publish = FALSE
  /\ depositType = Text("presentation")
  /\ files = [p \in ProjectIds |-> PlainFile(2)]
  /\ startFiles = files
  /\ \E n \in 0..MaxProjects : \E pages \in [1..n -> {Undefined, Num(1), Num(2)}] :
       sources = [i \in 1..n |->
                    Article(i, [BaseFrontmatter EXCEPT !.title = Text("T"),
                                                       !.first_page = pages[i]],
                            Text("A"), Arr(<<>>))]

SpecOrder == InitOrder /\ [][NextBuild]_vars

\* A client about to be constructed, with or without a token, for the
\* service or for its sandbox.
InitClient ==
  /\ pc = "new"
  /\ run = 1
  /\ depositArticles = <<>>
  /\ issue = EmptyIssueData
  /\ index = 0
  /\ jj = 0
  /\ zenodoDepositId = Undefined
  /\ data = NoData
  /\ calls = <<>>
  /\ err = NoError
  /\ bound = [p \in ProjectIds |-> NoBinding]
  /\ token \in {Undefined, Str(<<>>), Text("secret")}
  /\ sandbox \in BOOLEAN
  /\ publish = FALSE
  /\ depositType = Undefined
  /\ sources = <<>>
  /\ files = [p \in ProjectIds |-> PlainFile(2)]
  /\ startFiles = files

SpecClient == InitClient /\ [][NextClient]_vars

\* One run with or without a token and a deposit type, over articles with
\* or without a title and an abstract, each with at most one file to upload
\* and with or without a binding in its project.
InitInput ==
  /\ RunInit
  /\ token \in {Undefined, Str(<<>>), Text("secret")}
  /\ sandbox = FALSE
  /\ publish = FALSE
  /\ depositType \in {Undefined, Text("dataset")}
  /\ \E n \in 0..MaxArticles :
       /\ \E shapes \in [1..n -> [title : {Undefined, Text("T")},
                                   abstract : {Undefined, Text("A")},
                                   first_page : {Undefined},
                                   downloads : {Arr(<<>>), Arr(<<[url |-> Text("f")]>>)}]] :
            sources = [i \in 1..n |-> ShapedArticle(i, shapes[i])]
       /\ files \in [ProjectIds ->
                       {PlainFile(2), addZenodoToConfig(PlainFile(2), 42, FALSE)}]
       /\ \A p \in ProjectIds : p > n => files[p] = PlainFile(2)
  /\ startFiles = files

SpecInput == InitInput /\ [][Next]_vars

\* The token given to a run of the command, or to a client on its own.
SpecToken == (InitInput \/ InitClient) /\ [][Next \/ NextClient]_vars

\* The contributors an article may name as editors: x has one affiliation
\* of the article, y has no list of affiliations, w has an affiliation id
\* that is no affiliation of the article, v has two affiliations; no
\* contributor is called z.
EditorPersons ==
  Arr(<<[id |-> "x", name |-> Text("Ann"), orcid |-> Undefined,
         affiliations |-> Arr(<<"a1">>)],
        [id |-> "y", name |-> Text("Bob"), orcid |-> Text("0000"),
         affiliations |-> Undefined],
        [id |-> "w", name |-> Text("Cy"), orcid |-> Undefined,
         affiliations |-> Arr(<<"zz">>)],
        [id |-> "v", name |-> Text("Di"), orcid |-> Text("0001"),
         affiliations |-> Arr(<<"a1", "a2">>)]>>)

EditorIdLists ==
  {Undefined, Arr(<<>>), Arr(<<"x">>), Arr(<<"y">>), Arr(<<"w">>), Arr(<<"z", "v", "x">>)}

\* One run over articles that have a title and an abstract, each with or
\* without editors, and nothing to upload.
InitContributors ==
  /\ RunInit
  /\ token = Text("secret")
  /\ sandbox = FALSE
  /\ publish = FALSE
  /\ depositType \in {Text("presentation"), Text("dataset")}
  /\ files = [p \in ProjectIds |-> PlainFile(2)]
  /\ startFiles = files
  /\ \E n \in 1..MaxArticles : \E editors \in [1..n -> EditorIdLists] :
       sources = [i \in 1..n |->
                    Article(i, [BaseFrontmatter EXCEPT !.title = Text("T"),
                                                       !.editors = editors[i],
                                                       !.contributors = EditorPersons,
                                                       !.affiliations = AuthorAffiliations],
                            Text("A"), Arr(<<>>))]

SpecContributors == InitContributors /\ [][NextBuild]_vars

\* A configuration file whose project key is followed by a comment.
CommentedFile ==
  <<Line(0, "version", Text("1")),
    Commented(Line(0, "project", Block)),
    Line(2, "title", Text("T")),
    Line(0, "site", Block),
    Line(2, "template", Text("book"))>>

\* One run, with or without --sandbox, over articles with a title and an
\* abstract and with or without a file to upload; the project of an article
\* has a configuration file, with or without a binding (to deposit 42), or
\* none that is known.
InitBinding ==
  /\ RunInit
  /\ token = Text("secret")
  /\ sandbox \in BOOLEAN
  /\ publish = FALSE
  /\ depositType = Text("presentation")
  /\ \E n \in 1..MaxArticles :
       /\ \E d \in [1..n -> {Arr(<<>>), Arr(<<[url |-> Text("f")]>>)}] :
            \E known \in [1..n -> BOOLEAN] :
              sources = [i \in 1..n |->
                           [Article(i, [BaseFrontmatter EXCEPT !.title = Text("T"),
                                                               !.first_page = Num(i)],
                                    Text("A"), d[i])
                              EXCEPT !.configFile = IF known[i] THEN @ ELSE Undefined]]
       /\ files \in [ProjectIds ->
                       {PlainFile(2), PlainFile(4), CommentedFile,
                        addZenodoToConfig(PlainFile(2), 42, FALSE)}]
       /\ \A p \in ProjectIds : p > n => files[p] = PlainFile(2)
  /\ startFiles = files

SpecBinding == InitBinding /\ [][Next]_vars

\* One whole run over articles that have a title and an abstract and give
\* one of the reconciled fields, all of them with or all without a file to
\* upload.
InitConflict ==
  /\ RunInit
  /\ token = Text("secret")
  /\ sandbox = FALSE
  /\ publish = FALSE
  /\ depositType = Text("presentation")
  /\ files = [p \in ProjectIds |-> PlainFile(2)]
  /\ startFiles = files
  /\ \E k \in 1..Len(ScalarFields) : \E n \in 1..MaxArticles :
       \E values \in [1..n -> FieldValues(ScalarFields[k])] :
         \E d \in {Arr(<<>>), Arr(<<[url |-> Text("f")]>>)} :
           sources = [i \in 1..n |->
                        Article(i, [BaseFrontmatter EXCEPT !.title = Text("T"),
                                                           ![ScalarFields[k].from] = values[i]],
                                Text("A"), d)]

SpecConflict == InitConflict /\ [][Next]_vars

\* One run of the command with or without --publish, over articles with a
\* title and an abstract and at most one file to upload.
InitPublish ==
  /\ RunInit
  /\ token = Text("secret")
  /\ sandbox = FALSE
  /\ publish \in BOOLEAN
  /\ depositType = Text("presentation")
  /\ files = [p \in ProjectIds |-> PlainFile(2)]
  /\ startFiles = files
  /\ \E n \in 1..MaxArticles :
       \E d \in [1..n -> {Arr(<<>>), Arr(<<[url |-> Text("f")]>>)}] :
         sources = [i \in 1..n |->
                      Article(i, [BaseFrontmatter EXCEPT !.title = Text("T"),
                                                         !.first_page = Num(i)],
                              Text("A"), d[i])]

SpecPublish == InitPublish /\ [][Next]_vars

(***************************************************************************)
(* Properties.                                                             *)
(***************************************************************************)
Range(seq) == {seq[i] : i \in 1..Len(seq)}

\* The calls of this run made for article a with an operation in ops.
CallsFor(a, ops) == {k \in 1..Len(calls) : calls[k].art = a /\ calls[k].op \in ops}

\* The ids a binding line of the file names, read off the text of the file.
ExistingIds == {42}
BindingIn(lines) ==
  {N \in DepositIds \cup ExistingIds :
     \E sb \in BOOLEAN : ZenodoLine(N, sb) \in Range(lines)}

\* The run has made its create-or-update call for article a and gone on.
Submitted(a) ==
  \/ index > a
  \/ index = a /\ pc \in {"upload", "retry"}

\* C1: an article whose file held a binding with id N when the run started
\* is never created and is updated with N, at most once, and exactly once
\* when the run has gone past its submission; an article whose file held no
\* binding is never updated and is created at most once, and exactly once
\* when the run has gone past its submission.
C1_CreateOrUpdate ==
  \A a \in 0..(Len(depositArticles) - 1) :
    LET held == BindingIn(startFiles[depositArticles[a + 1].configFile.v])
        creates == CallsFor(a, {"create"})
        updates == CallsFor(a, {"update"})
    IN /\ held # {} =>
            /\ creates = {}
            /\ \A k \in updates : calls[k].id \in held
            /\ Cardinality(updates) <= 1
            /\ Submitted(a) => Cardinality(updates) = 1
       /\ held = {} =>
            /\ updates = {}
            /\ Cardinality(creates) <= 1
            /\ Submitted(a) => Cardinality(creates) = 1

\* A finished run over two articles, one updated with the id of its binding
\* and one created.
C1_Witness ==
  /\ pc = "done"
  /\ Len(depositArticles) = 2
  /\ \E a, b \in {0, 1} :
       /\ BindingIn(startFiles[depositArticles[a + 1].configFile.v]) = {42}
       /\ \E k \in CallsFor(a, {"update"}) : calls[k].id = 42 /\ calls[k].ok
       /\ BindingIn(startFiles[depositArticles[b + 1].configFile.v]) = {}
       /\ \E k \in CallsFor(b, {"create"}) : calls[k].ok

\* C2: from the moment create-deposit has returned id N for an article, so
\* in every state before its first upload is attempted too, the file of the
\* article holds the binding line with N, which it did not hold when the run
\* started; a create that threw writes nothing.
C2_BindingWritten ==
  \A k \in 1..Len(calls) :
    calls[k].op = "create" =>
      LET cf == depositArticles[calls[k].art + 1].configFile.v
      IN IF calls[k].ok
         THEN /\ ZenodoLine(calls[k].id, sandbox) \in Range(files[cf])
              /\ ZenodoLine(calls[k].id, sandbox) \notin Range(startFiles[cf])
              /\ Len(files[cf]) = Len(startFiles[cf]) + 1
         ELSE files[cf] = startFiles[cf]

\* The create of an article has returned, its binding is in the file and
\* its first upload has not been attempted yet.
C2_Witness ==
  /\ pc = "upload"
  /\ CallsFor(index, {"upload"}) = {}
  /\ \E k \in CallsFor(index, {"create"}) :
       /\ calls[k].ok
       /\ ZenodoLine(calls[k].id, sandbox)
            \in Range(files[depositArticles[index + 1].configFile.v])

\* C3: once an earlier run has created deposit N for a project and written
\* the binding, getZenodoId reads N back from the file of the project and the
\* run makes no create call for it.
C3_ReadsBack ==
  \A p \in ProjectIds :
    bound[p].run \in 1..(run - 1) =>
      /\ getZenodoId(Num(p), files) = Num(bound[p].id)
      /\ \A k \in 1..Len(calls) :
           depositArticles[calls[k].art + 1].configFile = Num(p) => calls[k].op # "create"

\* The upload attempts made for download f of article a, as places in calls.
Attempts(a, f) ==
  {k \in 1..Len(calls) : calls[k].op = "upload" /\ calls[k].art = a /\ calls[k].file = f}

First(S) == CHOOSE k \in S : \A m \in S : k <= m
Last(S) == CHOOSE k \in S : \A m \in S : m <= k

Places ==
  {<<a, f>> : a \in 0..(Len(depositArticles) - 1), f \in 0..(MaxFiles - 1)}

\* C4: a download gets at most two upload attempts (none when it has no
\* url); there is a second attempt only after a first one that threw, and a
\* first attempt that threw is followed by the second (the run stands at the
\* retry until it is made); when the second attempt has succeeded the run
\* has gone on to a later download of the article or past the article.
C4_OneRetry ==
  \A p \in Places :
    LET a == p[1]
        f == p[2]
        A == Attempts(a, f)
        article == depositArticles[a + 1]
    IN /\ Cardinality(A) <= 2
       /\ (f >= DownloadCount(article) \/ ~Truthy(article.downloads.v[f + 1].url)) => A = {}
       /\ Cardinality(A) = 2 => ~calls[First(A)].ok
       /\ (Cardinality(A) = 1 /\ ~calls[First(A)].ok) =>
            pc = "retry" /\ index = a /\ jj = f
       /\ (Cardinality(A) = 2 /\ calls[Last(A)].ok) =>
            \/ index > a
            \/ index = a /\ jj > f /\ pc \in {"upload", "retry", "error"}

\* A retry has just succeeded and the run stands at the next download of
\* the same article.
C4_Witness ==
  /\ pc = "upload"
  /\ jj = 1
  /\ Cardinality(Attempts(index, 0)) = 2
  /\ ~calls[First(Attempts(index, 0))].ok
  /\ calls[Len(calls)].ok
  /\ Last(Attempts(index, 0)) = Len(calls)

\* C5: when both attempts for a download have thrown, the run has ended
\* with the upload's error and the second attempt is its last call: no later
\* download of the article and no later article has any call.
C5_SecondFailureAborts ==
  \A p \in Places :
    LET A == Attempts(p[1], p[2])
    IN (Cardinality(A) = 2 /\ \A k \in A : ~calls[k].ok) =>
         /\ pc = "error"
         /\ err = RemoteError("upload")
         /\ Last(A) = Len(calls)
         /\ \A k \in 1..Len(calls) :
              /\ calls[k].art <= p[1]
              /\ calls[k].art = p[1] => calls[k].file <= p[2]

\* Both attempts for the first download of the first article threw, and a
\* second download with a url and a second article were still to come.
C5_Witness ==
  /\ pc = "error"
  /\ Len(depositArticles) = 2
  /\ index = 0
  /\ Cardinality(Attempts(0, 0)) = 2
  /\ \A k \in Attempts(0, 0) : ~calls[k].ok
  /\ DownloadCount(depositArticles[1]) = 2
  /\ Truthy(depositArticles[1].downloads.v[2].url)
  /\ Truthy(depositArticles[2].frontmatter.title)
  /\ Truthy(depositArticles[2].abstract)

\* The required field article a lacks, as lines 393-394 report it.
Lacks(a) ==
  IF ~Truthy(depositArticles[a + 1].frontmatter.title) THEN "title"
  ELSE IF ~Truthy(depositArticles[a + 1].abstract) THEN "abstract"
  ELSE "nothing"

\* C9: an article without a title, or without an abstract, is never
\* submitted: the run does not get past its build, where it ends with the
\* input error for the field, whatever the deposit type; no call is made
\* for the article and its file stays as it was.
C9_RequiredFields ==
  \A a \in 0..(Len(depositArticles) - 1) :
    Lacks(a) # "nothing" =>
      /\ CallsFor(a, {"create", "update", "upload"}) = {}
      /\ files[depositArticles[a + 1].configFile.v]
           = startFiles[depositArticles[a + 1].configFile.v]
      /\ index <= a
      /\ index = a => pc \in {"build", "error"}
      /\ (index = a /\ pc = "error") =>
           /\ err.error \in {"input", "conflict", "yaml"}
           /\ (err.error = "input" /\ getZenodoId(depositArticles[a + 1].configFile, files).t # "throw")
                => err = InputError(Lacks(a))

\* The run has submitted its first article and ended at the second, which
\* has a title and downloads but no abstract, with the input error.
C9_Witness ==
  /\ pc = "error"
  /\ index = 1
  /\ err = InputError("abstract")
  /\ depositType = Text("dataset")
  /\ Truthy(depositArticles[2].frontmatter.title)
  /\ DownloadCount(depositArticles[2]) > 0
  /\ CallsFor(0, {"create", "update"}) # {}
  /\ CallsFor(1, {"create", "update", "upload"}) = {}

\* The reconciliation has run over at least one article.
Reconciled == pc \in {"build", "error"} /\ Len(depositArticles) > 0

\* The non-null values the articles give field f, in input order; a volume
\* or issue number stands as its string representation.
Given(f) ==
  LET all == [i \in 1..Len(depositArticles) |-> depositArticles[i].frontmatter[f.from]]
      present == SelectSeq(all, LAMBDA x : x.t \notin {"undefined", "null"})
  IN [i \in 1..Len(present) |->
        IF f.guard = "string" THEN String(present[i]) ELSE present[i]]

Same(a, b) == a.t = b.t /\ (a.t \in {"num", "str"} => a.v = b.v)

AllSame(s) == \A i, j \in 1..Len(s) : Same(s[i], s[j])

\* C6: for every reconciled scalar field and every list of articles, the
\* reconciliation succeeds exactly when all non-null values of the field are
\* identical, and then the resolved value is the first non-null value in
\* input order; if two articles give differing non-null values, it fails
\* with a conflict error that names both values.
C6_ScalarReconciliation ==
  Reconciled =>
    /\ pc = "build" <=> \A k \in 1..Len(ScalarFields) : AllSame(Given(ScalarFields[k]))
    /\ pc = "build" =>
         \A k \in 1..Len(ScalarFields) :
           LET given == Given(ScalarFields[k])
           IN Same(issue[ScalarFields[k].name],
                   IF given = <<>> THEN Undefined ELSE given[1])
    /\ pc = "error" =>
         /\ err.error = "conflict"
         /\ \E k \in 1..Len(ScalarFields) :
              LET given == Given(ScalarFields[k])
              IN /\ err.field = ScalarFields[k].name
                 /\ \E i, j \in 1..Len(given) :
                      /\ ~Same(given[i], given[j])
                      /\ Same(err.first, given[i])
                      /\ Same(String(err.second), String(given[j]))

\* The articles that name editors, by their place in the order of iteration.
WithEditors ==
  {i \in 1..Len(depositArticles) :
     /\ depositArticles[i].frontmatter.editors.t = "arr"
     /\ Len(depositArticles[i].frontmatter.editors.v) > 0}

\* An editor list of the articles, resolved: its contributors in the order
\* of the list, each with the affiliation records of its affiliation ids.
Resolved(i) == ResolveEditors(depositArticles[i].frontmatter)

VenueTitles ==
  {depositArticles[i].frontmatter.venue_title : i \in 1..Len(depositArticles)}
    \ {Undefined}

\* C7: the reconciled editors are the resolved editors of the last article
\* in iteration order whose editors list is non-empty (undefined when there
\* is none): a later article with an empty or absent list does not change
\* them, and editor lists are never compared, so that the reconciliation
\* fails only on a conflict of a scalar field.
C7_LastEditorsWin ==
  Reconciled =>
    /\ pc = "build" =>
         issue.publicationEditors =
           IF WithEditors = {} THEN Undefined
           ELSE Resolved(CHOOSE i \in WithEditors : \A j \in WithEditors : j <= i)
    /\ pc = "error" <=> Cardinality(VenueTitles) > 1

\* Article A with editors [x], then article B with an empty list of
\* editors: the reconciled editors are x of article A, with its affiliation.
C7_Witness ==
  /\ pc = "build"
  /\ Len(depositArticles) = 2
  /\ depositArticles[1].frontmatter.editors = Arr(<<"x">>)
  /\ depositArticles[2].frontmatter.editors = Arr(<<>>)
  /\ issue.publicationEditors =
       Arr(<<[id |-> "x", name |-> Text("n1"), orcid |-> Undefined,
              affiliations |-> Arr(<<[id |-> "a1", name |-> Text("Zenodo")]>>)]>>)

\* The volume and the issue number among the reconciled fields.
StringFields == {k \in 1..Len(ScalarFields) : ScalarFields[k].guard = "string"}

\* C8: volume and issue numbers are compared by their string
\* representation: when the numbers the articles give, as numbers or as
\* strings, have the same string representation, the reconciliation reports
\* no conflict and resolves the field to that string; when two of them have
\* differing string representations, it fails with a conflict error.
C8_StringRepresentation ==
  Reconciled =>
    \A k \in StringFields :
      LET given == Given(ScalarFields[k])
      IN /\ (Len(given) >= 2 /\ AllSame(given)) =>
              pc = "build" /\ Same(issue[ScalarFields[k].name], given[1])
         /\ ~AllSame(given) =>
              pc = "error" /\ err.error = "conflict"
                           /\ err.field = ScalarFields[k].name

\* The keys of a record that belong to one deposit type.
TypeSpecificKeys ==
  {"conference_title", "conference_acronym", "conference_url", "conference_dates",
   "conference_place", "conference_session", "conference_session_part",
   "contributors", "custom"}

\* A record has been built in this run.
Built == "upload_type" \in DOMAIN data

\* C10: a record built with upload type "presentation" always has the key
\* conference_title, set to the reconciled venue title; a record built with
\* any other upload type has no conference_* key, no contributors and no
\* custom metadata.
C10_TypeSpecificFields ==
  Built =>
    /\ data.upload_type = depositType
    /\ IF depositType = Text("presentation")
       THEN /\ "conference_title" \in DOMAIN data
            /\ data.conference_title = issue.venueTitle
       ELSE DOMAIN data \cap TypeSpecificKeys = {}

\* A dataset record has been built for an article that has a repository,
\* in an issue with a venue title and editors.
C10_Witness ==
  /\ Built
  /\ pc = "submit"
  /\ depositType = Text("dataset")
  /\ Truthy(depositArticles[index + 1].frontmatter.github)
  /\ Truthy(issue.venueTitle)
  /\ issue.publicationEditors.t = "arr"

\* The names of the affiliations of the list with the ids given, in the
\* order of the ids, without the ids that are not in the list and without
\* the empty names.
RECURSIVE AffiliationNames(_, _)
AffiliationNames(ids, list) ==
  IF ids = <<>> THEN <<>>
  ELSE LET named == {k \in 1..Len(list) : list[k].id = ids[1] /\ list[k].name.v # <<>>}
           first == CHOOSE k \in named : \A l \in named : k <= l
       IN (IF named = {} THEN <<>> ELSE <<list[first].name.v>>)
            \o AffiliationNames(Tail(ids), list)

\* Names joined by a comma and a space.
RECURSIVE CommaJoined(_)
CommaJoined(names) ==
  IF names = <<>> THEN <<>>
  ELSE IF Len(names) = 1 THEN names[1]
  ELSE names[1] \o <<",", " ">> \o CommaJoined(Tail(names))

PageOf(k) == depositArticles[calls[k].art + 1].frontmatter.first_page

\* C12: the articles are processed in ascending order of their numeric
\* first_page, whatever the order the sources were collected in: for two
\* articles with numeric first_page p < q, every remote call for the
\* article with p comes before every remote call for the article with q.
C12_AscendingFirstPage ==
  \A k, l \in 1..Len(calls) :
    (PageOf(k).t = "num" /\ PageOf(l).t = "num" /\ PageOf(k).v < PageOf(l).v) => k < l

\* The requests an operation is made of.
RequestsOf(op) == IF op = "upload" THEN <<"GET", "PUT">> ELSE
                  IF op = "create" THEN <<"POST">> ELSE
                  IF op = "update" THEN <<"PUT">> ELSE
                  IF op = "list" THEN <<"GET">> ELSE <<"POST">>

\* C13: every operation of the client issues each of its requests at most
\* once, in order, and stops at the first that fails; it returns normally
\* only when no request failed; after a response with a status outside 2xx
\* it throws an error with the status and the body of the response, and
\* after a failure without response an error with the underlying message.
C13_NoRetryNoSwallow ==
  pc = "client" =>
    \A k \in 1..Len(calls) :
      LET c == calls[k]
          n == Len(c.requests)
      IN /\ n \in 1..Len(RequestsOf(c.op))
         /\ \A i \in 1..n : c.requests[i].method = RequestsOf(c.op)[i]
         /\ \A i \in 1..(n - 1) : Resolves(c.requests[i].answer)
         /\ c.result.t \in {"return", "throw"}
         /\ c.result.t = "return" =>
              /\ n = Len(RequestsOf(c.op))
              /\ Resolves(c.requests[n].answer)
         /\ ~Resolves(c.requests[n].answer) =>
              LET answer == c.requests[n].answer
              IN IF answer.t = "response"
                 THEN /\ c.result.t = "throw"
                      /\ c.result.error = "API Error"
                      /\ c.result.status = answer.status
                      /\ c.result.data = answer.data
                 ELSE /\ c.result.t = "throw"
                      /\ c.result.error = "Error"
                      /\ c.result.message = answer.message

\* An upload whose deposit was fetched and whose file was refused with
\* status 500, followed by a call that got no response.
C13_Witness ==
  /\ pc = "client"
  /\ Len(calls) = 2
  /\ calls[1].op = "upload"
  /\ Len(calls[1].requests) = 2
  /\ calls[1].requests[2].answer = Response(500, Str(<<"down">>))
  /\ calls[1].result.t = "throw"
  /\ calls[2].op = "publish"
  /\ calls[2].requests[1].answer.t = "none"
  /\ calls[2].result.t = "throw"

\* C15: a createDeposition that is answered with success has issued one
\* request, a POST to /deposit/depositions of the service with the body
\* {metadata: record}, and has returned the body of the response, with
\* its id and links, as it came.
C15_CreatePosts ==
  pc = "client" =>
    \A k \in 1..Len(calls) :
      (calls[k].op = "create" /\ Resolves(calls[k].requests[1].answer)) =>
        /\ Len(calls[k].requests) = 1
        /\ calls[k].requests[1].method = "POST"
        /\ calls[k].requests[1].url =
             <<"https:", "/", "/", IF sandbox THEN "sandbox.zenodo.org" ELSE "zenodo.org",
               "/", "api", "/", "deposit", "/", "depositions">>
        /\ DOMAIN calls[k].requests[1].body = {"metadata"}
        /\ calls[k].requests[1].body.metadata = calls[k].metadata
        /\ calls[k].result = [t |-> "return", data |-> calls[k].requests[1].answer.data]
        /\ DOMAIN calls[k].result.data = {"id", "links"}

\* A deposit created in the sandbox with id 10 for a dataset record.
C15_Witness ==
  /\ pc = "client"
  /\ sandbox
  /\ Len(calls) = 1
  /\ calls[1].op = "create"
  /\ calls[1].metadata.upload_type = Str(<<"dataset">>)
  /\ calls[1].result.t = "return"
  /\ calls[1].result.data.id = 10
  /\ calls[1].result.data.links.bucket = Bucket

\* C14: without a token, undefined or empty, the construction of the
\* client fails at once: a client on its own never gets to a call, and a
\* run of the command ends with the configuration error, without a remote
\* call and with every configuration file as it was; with a token that is
\* not empty the construction does not fail.
C14_TokenRequired ==
  /\ ~Truthy(token) =>
       /\ pc \in {"new", "start", "error"}
       /\ pc = "error" => err = [t |-> "throw", error |-> "config"]
       /\ calls = <<>>
       /\ files = startFiles
  /\ Truthy(token) => ~(pc = "error" /\ err.error = "config")

\* A run of the command over two articles, with a deposit type and an
\* empty token, has ended with the configuration error.
C14_Witness ==
  /\ pc = "error"
  /\ token = Str(<<>>)
  /\ Truthy(depositType)
  /\ Len(sources) = 2
  /\ err.error = "config"
  /\ calls = <<>>

\* The run has ended with an input error.
InputErrorEnd == pc = "error" /\ err.error = "input"

\* C17, as claimed: an input error ends the run before any remote call of
\* the run: in a run that has ended with an input error, no create, update
\* or upload call was made for any article.
C17_NoCallBeforeInputError ==
  InputErrorEnd => calls = <<>>

\* C17, amended: a run without a deposit type, and a run that finds no
\* article, end with the input error before any remote call; a run that
\* comes to an article without a title or without an abstract ends with
\* the input error before any remote call for that article and for the
\* articles after it, and the calls made for the articles before it stay.
C17_NoCallFromInputError ==
  /\ InputErrorEnd =>
       IF err.what \in {"type", "nothing found"}
       THEN calls = <<>>
       ELSE /\ err.what = Lacks(index)
            /\ \A k \in 1..Len(calls) : calls[k].art < index
            /\ \A a \in 0..(index - 1) : CallsFor(a, {"create", "update"}) # {}
  /\ (Truthy(token) /\ ~Truthy(depositType) /\ pc # "start") =>
       pc = "error" /\ err = InputError("type")
  /\ (Truthy(token) /\ Truthy(depositType) /\ sources = <<>> /\ pc \notin {"start", "collect"}) =>
       pc = "error" /\ err = InputError("nothing found")

\* The run has created the deposit of its first article and uploaded its
\* file, and has ended at the second article, which has no title.
C17_Witness ==
  /\ InputErrorEnd
  /\ err = InputError("title")
  /\ index = 1
  /\ CallsFor(0, {"create"}) # {}
  /\ CallsFor(0, {"upload"}) # {}
  /\ CallsFor(1, {"create", "update", "upload"}) = {}

\* The downloads of article a that have a url, by their place in the list.
WithUrl(a) ==
  {f \in 0..(DownloadCount(depositArticles[a + 1]) - 1) :
     Truthy(depositArticles[a + 1].downloads.v[f + 1].url)}

\* C16: the articles are taken one after the other and each goes from
\* built to submitted to its files uploaded: the calls of the run are in
\* the order of the articles; the first call for an article is its one
\* create-or-update call, and every other call for it is an upload, made
\* after that call returned; the files are uploaded in the order of the
\* download list; and when a call for a later article is made, or the run
\* is done, every file of the article has been uploaded.
C16_ArticlesInSequence ==
  /\ \A k, l \in 1..Len(calls) :
       k < l =>
         /\ calls[k].art <= calls[l].art
         /\ calls[k].art = calls[l].art =>
              /\ calls[l].op = "upload"
              /\ calls[k].op = "upload" => calls[k].file <= calls[l].file
              /\ calls[k].op \in {"create", "update"} => calls[k].ok
  /\ \A a \in 0..(Len(depositArticles) - 1) :
       /\ CallsFor(a, {"create", "update", "upload"}) # {} =>
            calls[First(CallsFor(a, {"create", "update", "upload"}))].op
              \in {"create", "update"}
       /\ \A k \in CallsFor(a, {"upload"}) : calls[k].file \in WithUrl(a)
       /\ (pc = "done" \/ \E k \in 1..Len(calls) : calls[k].art > a) =>
            \A f \in WithUrl(a) : \E k \in Attempts(a, f) : calls[k].ok
  /\ pc \in {"upload", "retry"} => CallsFor(index, {"create", "update"}) # {}
  /\ pc \in {"build", "submit"} => CallsFor(index, {"create", "update", "upload"}) = {}

\* A run over two articles with two files each is done: the deposit of
\* each was created and its two files were uploaded, the second file of
\* the first article at the second attempt.
C16_Witness ==
  /\ pc = "done"
  /\ Len(depositArticles) = 2
  /\ Cardinality(WithUrl(0)) = 2
  /\ Cardinality(WithUrl(1)) = 2
  /\ Cardinality(Attempts(0, 1)) = 2
  /\ Len(calls) = 7

\* C18: the calls made for a deposit are its create-or-update call, then
\* the uploads of its files (each fetches the upload target, then puts the
\* file), then the publication: when the command is run with --publish,
\* the deposit of every article is published after all of its files were
\* uploaded.
C18_PublishedWhenAsked ==
  (publish /\ pc = "done") =>
    \A a \in 0..(Len(depositArticles) - 1) :
      \E k \in 1..Len(calls) :
        /\ calls[k].op = "publish"
        /\ calls[k].art = a
        /\ \A l \in CallsFor(a, {"create", "update", "upload"}) : l < k

\* The names of the affiliations an editor was resolved to.
RECURSIVE ResolvedNames(_)
ResolvedNames(affs) ==
  IF affs = <<>> THEN <<>>
  ELSE (IF affs[1] = Undefined THEN <<>> ELSE <<affs[1].name.v>>)
         \o ResolvedNames(Tail(affs))

\* C19: for the deposit type "presentation" the build of a record never
\* fails on the editors, whether an editor has affiliations or not and
\* whether its affiliation ids are affiliations of the article or not; the
\* contributors of the record are the reconciled editors, as many and in
\* the same order, each of type "Editor" with the editor's name and orcid
\* and with the comma-joined names of its resolved affiliations; no
\* reconciled editor comes from an id that is no contributor of the article.
C19_EditorsAsContributors ==
  depositType = Text("presentation") =>
    /\ ~(pc = "error" /\ err.error = "TypeError")
    /\ (pc = "submit" /\ issue.publicationEditors.t = "arr") =>
         LET editors == issue.publicationEditors.v
         IN /\ data.contributors.t = "arr"
            /\ Len(data.contributors.v) = Len(editors)
            /\ \A i \in 1..Len(editors) :
                 /\ editors[i].id # "z"
                 /\ data.contributors.v[i] =
                      [type |-> "Editor", name |-> editors[i].name,
                       orcid |-> editors[i].orcid,
                       affiliation |->
                         Str(CommaJoined(
                               IF editors[i].affiliations.t # "arr" THEN <<>>
                               ELSE ResolvedNames(editors[i].affiliations.v)))]

\* The deposits created for the project whose configuration is file p.
CreatedFor(p) ==
  {k \in 1..Len(calls) :
     /\ calls[k].op = "create"
     /\ calls[k].ok
     /\ depositArticles[calls[k].art + 1].configFile = Num(p)}

\* The lines of a file that hold the project key of the configuration.
ProjectKeyLines(lines) ==
  {i \in 1..Len(lines) : lines[i].key = "project" /\ lines[i].indent = lines[1].indent}

\* C20: a configuration file whose project got a deposit created in this
\* run is the file as it was with one line more, the line
\* "  zenodo: https://<host>/deposit/<id>" right after the line that holds
\* the project key, every other line being the same and in the same order;
\* every other file is as it was: no file is written when the deposit is
\* updated, nor when the configuration file of the article is not known.
C20_BindingLineAfterProject ==
  \A p \in ProjectIds :
    IF CreatedFor(p) = {} THEN files[p] = startFiles[p]
    ELSE LET old == startFiles[p]
             id == calls[CHOOSE k \in CreatedFor(p) : TRUE].id
             line == Line(2, "zenodo",
                          Str(<<"https:", "/", "/",
                                IF sandbox THEN "sandbox.zenodo.org" ELSE "zenodo.org",
                                "/", "deposit", "/">> \o DecimalOf(id)))
         IN \E i \in ProjectKeyLines(old) :
              files[p] = SubSeq(old, 1, i) \o <<line>> \o SubSeq(old, i + 1, Len(old))

\* Two of the articles give field f differing non-null values (a volume or
\* issue number stands as its string representation).
ConflictOn(f, articles) ==
  \E i, j \in 1..Len(articles) :
    LET a == articles[i].frontmatter[f.from]
        b == articles[j].frontmatter[f.from]
    IN /\ a.t \notin {"undefined", "null"}
       /\ b.t \notin {"undefined", "null"}
       /\ IF f.guard = "string" THEN ~Same(String(a), String(b)) ELSE ~Same(a, b)

ConflictIn(articles) == \E k \in 1..Len(ScalarFields) : ConflictOn(ScalarFields[k], articles)

\* C21: the reconciliation over all collected articles ends before the
\* first article is built or submitted: a run over articles of which two
\* conflict on a venue, volume or issue field never gets past the
\* reconciliation, ends with the conflict error, makes no create, update
\* or upload call and changes no configuration file.
C21_ConflictAbortsBeforeCalls ==
  ConflictIn(sources) =>
    /\ pc \in {"start", "collect"} \/ (pc = "error" /\ err.error = "conflict")
    /\ calls = <<>>
    /\ files = startFiles

\* The hosts named by the binding lines of the configuration file p.
BindingHosts(p) ==
  {files[p][i].val.v[4] : i \in {j \in 1..Len(files[p]) : files[p][j].key = "zenodo"}}

\* C22: over any sequence of runs with and without --sandbox on the same
\* projects, an update or upload call for a project whose configuration
\* file holds a binding goes to the service the binding names: an id bound
\* by a sandbox run is never sent to the production endpoint, nor an id
\* bound by a production run to the sandbox endpoint.
C22_IdStaysInEnvironment ==
  \A k \in 1..Len(calls) :
    calls[k].op \in {"update", "upload"} =>
      \A h \in BindingHosts(depositArticles[calls[k].art + 1].configFile.v) :
        h = IF calls[k].sandbox THEN "sandbox.zenodo.org" ELSE "zenodo.org"

\* The articles in the order given by the permutation p of their places.
Permuted(articles, p) == [i \in 1..Len(articles) |-> articles[p[i]]]

\* C23: the outcome of reconciling the scalar fields does not depend on the
\* order of the articles: over every permutation of the articles the
\* reconciliation fails with a conflict if it failed over the articles as
\* they were given, and else succeeds with the same value for every scalar
\* field.
C23_OrderIndependent ==
  Reconciled =>
    \A p \in Permutations(1..Len(depositArticles)) :
      LET r == issueDataFromArticles(Permuted(depositArticles, p))
      IN /\ (pc = "error") <=> (r.t = "throw")
         /\ pc = "error" => (err.error = "conflict" /\ r.error = "conflict")
         /\ pc = "build" =>
              \A k \in 1..Len(ScalarFields) :
                Same(issue[ScalarFields[k].name], r.data[ScalarFields[k].name])

====
